---- MODULE Spec2Model ----
(***************************************************************************)
(* CommonPopover of client/src/components/Popover/Popover.tsx: the         *)
(* geometry of `reposition` and the show/hide life cycle of the overlay.   *)
(*                                                                         *)
(* Lengths and coordinates are integers counting quarter pixels, so that   *)
(* the half and quarter pixel values that fractional DOMRects and the      *)
(* division by 2 in `reposition` produce are exact, and Math.round is a    *)
(* real rounding.                                                          *)
(*                                                                         *)
(* One action is one handler run to completion together with the React     *)
(* render and the effects that its state update causes.  A pointer-down is *)
(* dispatched in two steps, the anchor's own handler and then the          *)
(* listeners of the document, as the DOM does while the event bubbles.     *)
(* The effects of the render that the anchor's handler causes have run     *)
(* when the event reaches the document: "the initial open click also       *)
(* triggers the `hide` callback run" (comment of the hide effect).         *)
(* A pointer move of the model is a move that PgCommon.throttle hands to   *)
(* the wrapped callback (a sampled move).  The resize of an observed       *)
(* element is one step with the ResizeObserver's callback it causes.       *)
(* Another instance of the component appears only through what it shares   *)
(* with this one: the handler properties of the anchor elements.           *)
(***************************************************************************)
EXTENDS Integers, FiniteSets, Sequences, TLC

VARIABLES
    mounted,                     \* the CommonPopover instance is mounted
    showOnHover,                 \* props.showOnHover
    continueToShowOnPopupHover,  \* props.continueToShowOnPopupHover
    placement,                   \* props.placement
    anchorEl,                    \* props.anchorEl
    maxWidth,                    \* props.maxWidth
    isVisible,                   \* useState(false)
    position,                    \* useState({x: 0, y: 0})
    relativeMidPoint,            \* useState(0)
    popoverRef,                  \* popoverRef.current is an element
    anchorRects,                 \* getBoundingClientRect() of each anchor element
    popoverSize,                 \* measured width and height of the overlay
    innerWidth,                  \* window.innerWidth
    innerHeight,                 \* window.innerHeight
    onmouseenter,                \* anchor element -> its onmouseenter property is set
    onmousedown,                 \* anchor element -> its onmousedown property is set
    hide,                        \* the document listener of the "Handle hide" effect
    timers,                      \* pending setTimeout callbacks of onmouseenter
    observed,                    \* elements the ResizeObserver observes
    pointer,                     \* last pointer position
    inflight                     \* pointer-down being dispatched

vars == <<mounted, showOnHover, continueToShowOnPopupHover, placement, anchorEl,
          maxWidth, isVisible, position, relativeMidPoint, popoverRef, anchorRects,
          popoverSize, innerWidth, innerHeight, onmouseenter, onmousedown, hide,
          timers, observed, pointer, inflight>>

props == <<showOnHover, continueToShowOnPopupHover, placement, anchorEl, maxWidth>>

geometry == <<anchorRects, popoverSize, innerWidth, innerHeight>>

----------------------------------------------------------------------------
(* Numbers *)

\* n pixels, in quarter pixels
Px(n) == n * 4

\* n half pixels, in quarter pixels
HalfPx(n) == n * 2

\* Math.round: the nearest whole pixel, a tie goes up
Round(v) == ((v + 2) \div 4) * 4

Max(a, b) == IF a >= b THEN a ELSE b

ARROW_RADIUS == 8

\* Most hover-intent timers pending at once
MaxTimers == 2

PADDING == 1

Placements == {"top", "right", "bottom", "left"}

\* props.maxWidth left out (or 0): max-width is fit-content
NoMaxWidth == 0

Anchors == {"a1", "a2"}

Rect(x, y, w, h) == [x |-> x, y |-> y, width |-> w, height |-> h]

Left(r) == r.x

Top(r) == r.y

Right(r) == r.x + r.width

Bottom(r) == r.y + r.height

Point(x, y) == [x |-> x, y |-> y]

----------------------------------------------------------------------------
(* getRoundedClientRect *)

addPadding(key, value) ==
    CASE key = "top" -> value - Px(PADDING)
      [] key = "right" -> value + Px(PADDING)
      [] key = "bottom" -> value + Px(PADDING)
      [] key = "left" -> value - Px(PADDING)
      [] OTHER -> value

getRoundedClientRect(r) ==
    [x |-> Round(addPadding("x", r.x)),
     y |-> Round(addPadding("y", r.y)),
     width |-> Round(addPadding("width", r.width)),
     height |-> Round(addPadding("height", r.height)),
     top |-> Round(addPadding("top", Top(r))),
     right |-> Round(addPadding("right", Right(r))),
     bottom |-> Round(addPadding("bottom", Bottom(r))),
     left |-> Round(addPadding("left", Left(r)))]

----------------------------------------------------------------------------
(* reposition *)

\* The overlay's element rectangle when it is rendered at position pos
PopoverRectAt(pos, size) == Rect(pos.x, pos.y, size.width, size.height)

\* Mid-point of the popover and the anchor element should be the same
CenterOn(start, length, popLength) == Max(0, start + (length - popLength) \div 2)

\* The overlay put against the anchor, without the gap
BesideNearNoGap(start, popLength) == Max(0, start - popLength)

\* The side of the anchor the overlay is put on, along the placement axis
BesideNear(start, popLength) == Max(0, start - (popLength + Px(ARROW_RADIUS)))

\* The overlay put against the anchor's far side, without the gap
BesideFarNoGap(end) == Max(0, end)

BesideFar(end) == Max(0, end + Px(ARROW_RADIUS))

\* The far edge is not looked at
ClampFarEdgeNever(v, popLength, inner) == v

\* The far edge is held inside the window
ClampFarEdge(v, popLength, inner) ==
    IF Round(v + popLength) > inner THEN Round(inner - popLength) ELSE v

\* relativeMidPoint of top and bottom, from the re-measured rectangle
MidPointHorizontal(a, p, inner) ==
    IF Left(p) = 0
    THEN Left(a) + a.width \div 2
    ELSE IF Round(Right(p)) = inner
         THEN p.width - ((inner - Right(a)) + a.width \div 2)
         ELSE p.width \div 2

\* relativeMidPoint of left and right, from the re-measured rectangle
MidPointVertical(a, p, inner) ==
    IF Top(p) = 0
    THEN Top(a) + a.height \div 2
    ELSE IF Round(Bottom(p)) = inner
         THEN p.height - a.height \div 2
         ELSE p.height \div 2

\* What one call of reposition hands to setPosition and setRelativeMidPoint.
\* a is anchorEl.getBoundingClientRect(); size the overlay's measured size;
\* rendered the position the overlay's element has while the call runs: the
\* state updates of the call are applied by the render that follows it.
Reposition(a, size, rendered, pl, w, h) ==
    LET p == PopoverRectAt(rendered, size)
    IN IF pl \in {"top", "bottom"}
       THEN [position |->
                Point(ClampFarEdge(CenterOn(a.x, a.width, p.width), p.width, w),
                      IF pl = "top" THEN BesideNear(Top(a), p.height)
                                    ELSE BesideFar(Bottom(a))),
             relativeMidPoint |-> MidPointHorizontal(a, p, w)]
       ELSE [position |->
                Point(IF pl = "left" THEN BesideNear(Left(a), p.width)
                                     ELSE BesideFar(Right(a)),
                      ClampFarEdge(CenterOn(a.y, a.height, p.height), p.height, h)),
             relativeMidPoint |-> MidPointVertical(a, p, h)]

\* reposition without its first line
RepositionUnguarded(ref, stored, a, size, pl, w, h) ==
    Reposition(a, size, stored.position, pl, w, h)

\* reposition: "if (!popoverRef.current) return", and the values of position
\* and relativeMidPoint after the call.  stored holds them before the call.
RepositionOrKeep(ref, stored, a, size, pl, w, h) ==
    IF ~ref THEN stored ELSE Reposition(a, size, stored.position, pl, w, h)

----------------------------------------------------------------------------
(* Elements, points and hit testing *)

\* ev.x / ev.y strictly inside a rounded rectangle
Within(pt, rr) ==
    /\ pt.x > rr.left
    /\ pt.x < rr.right
    /\ pt.y < rr.bottom
    /\ pt.y > rr.top

\* The point lies on the element (how the browser picks the target)
OnElement(pt, r) ==
    /\ Left(r) <= pt.x
    /\ pt.x < Right(r)
    /\ Top(r) <= pt.y
    /\ pt.y < Bottom(r)

PopoverRect == PopoverRectAt(position, popoverSize)

\* The element a pointer event at pt is dispatched to: the overlay is in the
\* portal, above the page
HitTest(pt) ==
    IF popoverRef /\ OnElement(pt, PopoverRect)
    THEN "popover"
    ELSE IF \E a \in Anchors : OnElement(pt, anchorRects[a])
         THEN CHOOSE a \in Anchors : OnElement(pt, anchorRects[a])
         ELSE "body"

Center(r) == Point(Round(r.x + r.width \div 2), Round(r.y + r.height \div 2))

\* Pointer positions tried: the middle of the anchor, above it where the
\* overlay of placement top lies, in the gap between the two, beside the
\* overlay, just off the anchor's right edge, the other anchor, and far away
PointsAround(r) ==
    LET c == Center(r)
    IN {c,
        Point(c.x, Round(Top(r)) - Px(30)),
        Point(c.x, Round(Top(r)) - Px(4)),
        Point(Round(Left(r)) - Px(60), Round(Top(r)) - Px(30)),
        Point(Round(Right(r) + Px(1)) - Px(1), c.y)}

Points ==
    {pt \in PointsAround(anchorRects["a1"]) \cup {Center(anchorRects["a2"])}
           \cup {Point(innerWidth - Px(10), innerHeight - Px(10))} :
        /\ pt.x >= 0 /\ pt.x < innerWidth
        /\ pt.y >= 0 /\ pt.y < innerHeight}

----------------------------------------------------------------------------
(* Effects *)

NoListener == [type |-> "none", isInitial |-> FALSE]

NoEvent == [type |-> "none", target |-> "none", wasVisible |-> FALSE]

\* reposition is a new callback when anchorEl or placement changed
RepositionChanged == anchorEl' # anchorEl \/ placement' # placement

\* The layout effect without props.maxWidth among its dependencies
LayoutEffectIgnoresMaxWidth(vis) == vis /\ (vis # isVisible \/ RepositionChanged)

\* "Reposition on maxWidth or isVisible change": the layout effect runs
LayoutEffectRuns(vis) ==
    vis /\ (maxWidth' # maxWidth \/ vis # isVisible \/ RepositionChanged)

\* "Set popover and arrow position on resize": what is observed after the effect
ResizeEffect(vis, el) == IF vis THEN {el, "popover"} ELSE {}

\* "Handle open": the handler properties of the anchor elements
OpenEffectEnter(hover, el) ==
    IF hover THEN [onmouseenter EXCEPT ![el] = TRUE] ELSE onmouseenter

OpenEffectDown(hover, el) ==
    IF hover THEN onmousedown ELSE [onmousedown EXCEPT ![el] = TRUE]

\* "Handle hide" without the isInitial guard of click mode
HideEffectNoInitial(vis, hover) ==
    IF ~vis
    THEN NoListener
    ELSE IF hover
         THEN [type |-> "mousemove", isInitial |-> FALSE]
         ELSE [type |-> "mousedown", isInitial |-> FALSE]

\* "Handle hide" whose cleanup leaves the listener on the document
HideEffectNoCleanup(vis, hover) ==
    IF ~vis
    THEN hide
    ELSE IF hover
         THEN [type |-> "mousemove", isInitial |-> FALSE]
         ELSE [type |-> "mousedown", isInitial |-> TRUE]

\* "Handle hide": the document listener after cleanup and a new run
HideEffect(vis, hover) ==
    IF ~vis
    THEN NoListener
    ELSE IF hover
         THEN [type |-> "mousemove", isInitial |-> FALSE]
         ELSE [type |-> "mousedown", isInitial |-> TRUE]

\* The overlay stays in the portal whatever isVisible is
PortalKeepsOverlay(vis) == popoverRef \/ vis

\* "if (!isVisible) return null", else the portal with the overlay:
\* popoverRef.current is an element after the commit
Portal(vis) == vis

Stored == [position |-> position, relativeMidPoint |-> relativeMidPoint]

\* The render that a state or prop change causes, with its effects.  The
\* action that uses it sets the props' and the geometry' first.
Render(vis) ==
    LET r == RepositionOrKeep(Portal(vis), Stored, anchorRects'[anchorEl'],
                              popoverSize', placement', innerWidth', innerHeight')
    IN /\ isVisible' = vis
       /\ popoverRef' = Portal(vis)
       /\ IF LayoutEffectRuns(vis)
          THEN /\ position' = r.position
               /\ relativeMidPoint' = r.relativeMidPoint
          ELSE UNCHANGED <<position, relativeMidPoint>>
       /\ observed' = IF vis # isVisible \/ RepositionChanged
                      THEN ResizeEffect(vis, anchorEl')
                      ELSE observed
       /\ IF showOnHover' # showOnHover \/ anchorEl' # anchorEl
          THEN /\ onmouseenter' = OpenEffectEnter(showOnHover', anchorEl')
               /\ onmousedown' = OpenEffectDown(showOnHover', anchorEl')
          ELSE UNCHANGED <<onmouseenter, onmousedown>>
       /\ hide' = IF \/ vis # isVisible
                     \/ placement' # placement
                     \/ showOnHover' # showOnHover
                     \/ continueToShowOnPopupHover' # continueToShowOnPopupHover
                     \/ anchorEl' # anchorEl
                  THEN HideEffect(vis, showOnHover')
                  ELSE hide

\* No state or prop changed: nothing is rendered
NoRender ==
    UNCHANGED <<isVisible, popoverRef, position, relativeMidPoint, observed,
                onmouseenter, onmousedown, hide>>

----------------------------------------------------------------------------
(* Handlers *)

\* anchorEl.onmousedown: setIsVisible(true)
MouseDown ==
    LET target == HitTest(pointer)
    IN /\ inflight = NoEvent
       /\ inflight' = [type |-> "mousedown", target |-> target, wasVisible |-> isVisible]
       /\ UNCHANGED <<mounted, props, geometry, timers, pointer>>
       /\ IF target \in Anchors /\ onmousedown[target] /\ mounted /\ ~isVisible
          THEN Render(TRUE)
          ELSE NoRender

\* hide of click mode: the document's mousedown listener sees the event
ClickHide(h, target) ==
    IF h.isInitial
    THEN [listener |-> [h EXCEPT !.isInitial = FALSE], hides |-> FALSE]
    ELSE [listener |-> h, hides |-> target # "popover"]

DocumentMouseDown ==
    /\ inflight # NoEvent
    /\ inflight' = NoEvent
    /\ UNCHANGED <<mounted, props, geometry, timers, pointer>>
    /\ IF hide.type = "mousedown"
       THEN LET c == ClickHide(hide, inflight.target)
            IN IF c.hides
               THEN Render(FALSE)
               ELSE /\ hide' = c.listener
                    /\ UNCHANGED <<isVisible, popoverRef, position, relativeMidPoint,
                                   observed, onmouseenter, onmousedown>>
       ELSE NoRender

\* The ResizeObserver's callback
ResizeObserverCallback ==
    LET r == RepositionOrKeep(popoverRef, Stored, anchorRects[anchorEl], popoverSize,
                              placement, innerWidth, innerHeight)
    IN /\ inflight = NoEvent
       /\ observed # {}
       /\ popoverRef
       /\ position' = r.position
       /\ relativeMidPoint' = r.relativeMidPoint
       /\ UNCHANGED <<mounted, props, geometry, isVisible, popoverRef, onmouseenter,
                      onmousedown, hide, timers, observed, pointer, inflight>>

\* The ResizeObserver's callback delivered when the overlay has left the
\* portal: the commit empties popoverRef, the cleanup that unobserves runs
\* after it.  Enabled whenever no overlay is mounted, which covers every
\* moment at which the browser can deliver it.
LateResizeObserverCallback ==
    LET r == RepositionOrKeep(popoverRef, Stored, anchorRects[anchorEl], popoverSize,
                              placement, innerWidth, innerHeight)
    IN /\ inflight = NoEvent
       /\ mounted
       /\ ~popoverRef
       /\ position' = r.position
       /\ relativeMidPoint' = r.relativeMidPoint
       /\ UNCHANGED <<mounted, props, geometry, isVisible, popoverRef, onmouseenter,
                      onmousedown, hide, timers, observed, pointer, inflight>>

\* An observed element changes size: the ResizeObserver calls reposition
ResizeObserved(el) ==
    LET r == RepositionOrKeep(popoverRef, Stored, anchorRects'[anchorEl], popoverSize',
                              placement, innerWidth, innerHeight)
    IN IF el \in observed
       THEN /\ position' = r.position
            /\ relativeMidPoint' = r.relativeMidPoint
       ELSE UNCHANGED <<position, relativeMidPoint>>

\* The overlay can measure size under max-width mw ("fit-content" when the
\* prop is left out)
FitsMaxWidth(size, mw) == mw = NoMaxWidth \/ size.width <= mw

\* The anchor element a gets another size
ResizeAnchor(a, size) ==
    /\ inflight = NoEvent
    /\ anchorRects' = [anchorRects EXCEPT
                          ![a] = Rect(@.x, @.y, size.width, size.height)]
    /\ anchorRects' # anchorRects
    /\ UNCHANGED <<popoverSize, innerWidth, innerHeight>>
    /\ UNCHANGED <<mounted, props, isVisible, popoverRef, onmouseenter, onmousedown,
                   hide, timers, observed, pointer, inflight>>
    /\ ResizeObserved(a)

\* The overlay's element gets another size (its content changed)
ResizePopover(size) ==
    /\ inflight = NoEvent
    /\ popoverRef
    /\ size # popoverSize
    /\ FitsMaxWidth(size, maxWidth)
    /\ popoverSize' = size
    /\ UNCHANGED <<anchorRects, innerWidth, innerHeight>>
    /\ UNCHANGED <<mounted, props, isVisible, popoverRef, onmouseenter, onmousedown,
                   hide, timers, observed, pointer, inflight>>
    /\ ResizeObserved("popover")

\* hide of hover mode, placement by placement
IsAnchorAligned(e, anchorRect, pl) ==
    LET isInsideAnchorHorizontal == e.x > anchorRect.left /\ e.x < anchorRect.right
        isInsideAnchorVertical == e.y > anchorRect.top /\ e.y < anchorRect.bottom
        beside == isInsideAnchorVertical /\ ~isInsideAnchorHorizontal
    IN CASE pl = "top" -> e.y < anchorRect.bottom \/ beside
         [] pl = "bottom" -> e.y > anchorRect.top \/ beside
         [] pl = "left" -> e.x < anchorRect.left \/ beside
         [] pl = "right" -> e.x > anchorRect.right \/ beside

\* The overlay's rectangle alone, without the gap on the anchor's side
IsInsidePopoverNoGap(e, popoverRect, pl) ==
    /\ e.x > popoverRect.left
    /\ e.x < popoverRect.right
    /\ e.y > popoverRect.top
    /\ e.y < popoverRect.bottom

IsInsidePopover(e, popoverRect, pl) ==
    CASE pl = "top" ->
            /\ e.x > popoverRect.left
            /\ e.x < popoverRect.right
            /\ e.y > popoverRect.top
            /\ e.y < popoverRect.bottom + Px(ARROW_RADIUS)
      [] pl = "bottom" ->
            /\ e.x > popoverRect.left
            /\ e.x < popoverRect.right
            /\ e.y > popoverRect.top - Px(ARROW_RADIUS)
            /\ e.y < popoverRect.bottom
      [] pl = "left" ->
            /\ e.x > popoverRect.left
            /\ e.x < popoverRect.right + Px(ARROW_RADIUS)
            /\ e.y > popoverRect.top
            /\ e.y < popoverRect.bottom
      [] pl = "right" ->
            /\ e.x > popoverRect.left - Px(ARROW_RADIUS)
            /\ e.x < popoverRect.right
            /\ e.y > popoverRect.top
            /\ e.y < popoverRect.bottom

\* hide of hover mode that takes the continue-to-show branch whatever the prop
HoverHideAlwaysContinues(e, a, p, pl, continue) ==
    LET anchorRect == getRoundedClientRect(a)
    IN IF Within(e, anchorRect)
       THEN FALSE
       ELSE ~(/\ IsAnchorAligned(e, anchorRect, pl)
              /\ IsInsidePopover(e, getRoundedClientRect(p), pl))

\* hide of hover mode: TRUE when it calls setIsVisible(false)
HoverHide(e, a, p, pl, continue) ==
    LET anchorRect == getRoundedClientRect(a)
        isInsideAnchor == Within(e, anchorRect)
    IN IF isInsideAnchor
       THEN FALSE
       ELSE IF continue
            THEN ~(/\ IsAnchorAligned(e, anchorRect, pl)
                   /\ IsInsidePopover(e, getRoundedClientRect(p), pl))
            ELSE ~isInsideAnchor

\* updateMousePosition of a pending timer (left: the pointer has been outside
\* the anchor's rounded rectangle since the timer was set; history only)
UpdateMousePosition(t, e) ==
    [t EXCEPT !.pos = e,
              !.left = t.left \/ ~Within(e, getRoundedClientRect(anchorRects[t.anchor]))]

\* anchorEl.onmouseenter: the timer it sets (hover: showOnHover when it was set;
\* history only).  The overlay lives in the portal, so the anchor never
\* contains popoverRef.current.
HoverIntent(a, e) == [anchor |-> a, pos |-> e, left |-> FALSE, hover |-> showOnHover]

\* A pointer move to p: mouseenter on the anchors entered, then the
\* document's mousemove listeners
MouseMove(p) ==
    LET entered == {a \in Anchors : /\ OnElement(p, anchorRects[a])
                                    /\ ~OnElement(pointer, anchorRects[a])
                                    /\ onmouseenter[a]}
    IN /\ inflight = NoEvent
       /\ p # pointer
       /\ pointer' = p
       /\ timers' = {UpdateMousePosition(t, p) : t \in timers}
                       \cup {HoverIntent(a, p) : a \in entered}
       /\ Cardinality(timers') <= MaxTimers
       /\ UNCHANGED <<mounted, props, geometry, inflight>>
       /\ IF /\ hide.type = "mousemove"
             /\ popoverRef
             /\ HoverHide(p, anchorRects[anchorEl], PopoverRect, placement,
                          continueToShowOnPopupHover)
          THEN Render(FALSE)
          ELSE NoRender

\* The test of the timer's callback on the horizontal axis alone
TimerShowsHorizontalOnly(t) ==
    LET anchorRect == getRoundedClientRect(anchorRects[t.anchor])
    IN t.pos.x > anchorRect.left /\ t.pos.x < anchorRect.right

\* The timer's callback finds the pointer inside the anchor
TimerShows(t) == Within(t.pos, getRoundedClientRect(anchorRects[t.anchor]))

\* The setTimeout callback of onmouseenter runs: the delay has elapsed
TimerFire(t) ==
    /\ inflight = NoEvent
    /\ t \in timers
    /\ timers' = timers \ {t}
    /\ UNCHANGED <<mounted, props, geometry, pointer, inflight>>
    /\ IF TimerShows(t) /\ mounted /\ ~isVisible
       THEN Render(TRUE)
       ELSE NoRender

----------------------------------------------------------------------------
(* The parent renders the component with other props, or removes it *)

SetShowOnHover ==
    /\ inflight = NoEvent
    /\ mounted
    /\ showOnHover' = ~showOnHover
    /\ UNCHANGED <<continueToShowOnPopupHover, placement, anchorEl, maxWidth>>
    /\ UNCHANGED <<mounted, geometry, timers, pointer, inflight>>
    /\ Render(isVisible)

SetContinueToShow ==
    /\ inflight = NoEvent
    /\ mounted
    /\ continueToShowOnPopupHover' = ~continueToShowOnPopupHover
    /\ UNCHANGED <<showOnHover, placement, anchorEl, maxWidth>>
    /\ UNCHANGED <<mounted, geometry, timers, pointer, inflight>>
    /\ Render(isVisible)

SetPlacement(pl) ==
    /\ inflight = NoEvent
    /\ mounted
    /\ pl # placement
    /\ placement' = pl
    /\ UNCHANGED <<showOnHover, continueToShowOnPopupHover, anchorEl, maxWidth>>
    /\ UNCHANGED <<mounted, geometry, timers, pointer, inflight>>
    /\ Render(isVisible)

SetAnchorEl(a) ==
    /\ inflight = NoEvent
    /\ mounted
    /\ a # anchorEl
    /\ anchorEl' = a
    /\ UNCHANGED <<showOnHover, continueToShowOnPopupHover, placement, maxWidth>>
    /\ UNCHANGED <<mounted, geometry, timers, pointer, inflight>>
    /\ Render(isVisible)

\* The parent passes another maxWidth: the overlay's max-width changes and
\* with it the size the overlay measures (size is one its content allows)
SetMaxWidth(mw, size) ==
    /\ inflight = NoEvent
    /\ mounted
    /\ mw # maxWidth
    /\ maxWidth' = mw
    /\ FitsMaxWidth(size, mw)
    /\ popoverSize' = size
    /\ UNCHANGED <<showOnHover, continueToShowOnPopupHover, placement, anchorEl>>
    /\ UNCHANGED <<anchorRects, innerWidth, innerHeight>>
    /\ UNCHANGED <<mounted, timers, pointer, inflight>>
    /\ Render(isVisible)

\* Teardown: the cleanups of the effects that return one
Unmount ==
    /\ inflight = NoEvent
    /\ mounted
    /\ mounted' = FALSE
    /\ isVisible' = FALSE
    /\ popoverRef' = FALSE
    /\ observed' = {}
    /\ hide' = NoListener
    /\ UNCHANGED <<props, geometry, position, relativeMidPoint, onmouseenter,
                   onmousedown, timers, pointer, inflight>>

----------------------------------------------------------------------------
(* Specifications *)

\* The state after the first render and its effects
Mounted ==
    /\ mounted = TRUE
    /\ isVisible = FALSE
    /\ position = Point(0, 0)
    /\ relativeMidPoint = 0
    /\ popoverRef = FALSE
    /\ onmouseenter = [a \in Anchors |-> a = anchorEl /\ showOnHover]
    /\ onmousedown = [a \in Anchors |-> a = anchorEl /\ ~showOnHover]
    /\ hide = NoListener
    /\ timers = {}
    /\ observed = {}
    /\ pointer = Point(innerWidth - Px(10), innerHeight - Px(10))
    /\ inflight = NoEvent

Init ==
    /\ anchorRects = [a \in Anchors |->
                        IF a = "a1"
                        THEN Rect(HalfPx(401), HalfPx(201), Px(200), Px(40))
                        ELSE Rect(Px(600), Px(300), Px(100), Px(30))]
    /\ popoverSize = [width |-> Px(150), height |-> Px(60)]
    /\ innerWidth = Px(1024)
    /\ innerHeight = Px(768)
    /\ showOnHover \in BOOLEAN
    /\ continueToShowOnPopupHover \in BOOLEAN
    /\ placement \in Placements
    /\ anchorEl = "a1"
    /\ maxWidth = NoMaxWidth
    /\ Mounted

Next ==
    \/ \E p \in Points : MouseMove(p)
    \/ MouseDown
    \/ DocumentMouseDown
    \/ \E t \in timers : TimerFire(t)
    \/ ResizeObserverCallback
    \/ LateResizeObserverCallback
    \/ SetShowOnHover
    \/ SetContinueToShow
    \/ \E pl \in Placements : SetPlacement(pl)
    \/ \E a \in Anchors : SetAnchorEl(a)
    \/ Unmount

Spec == Init /\ [][Next]_vars

\* Geometry: every anchor rectangle, overlay size and placement of the sets
\* below, in click mode
AnchorXs == {Px(0), Px(100), Px(849), Px(900)}

AnchorYs == {Px(10), Px(100), Px(718)}

PopoverWidths == {Px(150), HalfPx(301), Px(2000)}

PopoverHeights == {Px(60), HalfPx(121), Px(900)}

InitGeom ==
    /\ \E x \in AnchorXs, y \in AnchorYs :
          anchorRects = [a \in Anchors |->
                           IF a = "a1"
                           THEN Rect(x, y, Px(200), Px(40))
                           ELSE Rect(Px(600), Px(300), Px(100), Px(30))]
    /\ popoverSize \in [width : PopoverWidths, height : PopoverHeights]
    /\ innerWidth = Px(1024)
    /\ innerHeight = Px(768)
    /\ showOnHover = FALSE
    /\ continueToShowOnPopupHover = FALSE
    /\ placement \in Placements
    /\ anchorEl = "a1"
    /\ maxWidth = NoMaxWidth
    /\ Mounted

NextGeom ==
    \/ \E p \in Points : MouseMove(p)
    \/ MouseDown
    \/ DocumentMouseDown
    \/ ResizeObserverCallback

SpecGeom == InitGeom /\ [][NextGeom]_vars

\* Resizes and maxWidth changes, in click mode
ResizedAnchorSizes ==
    {[width |-> Px(200), height |-> Px(40)], [width |-> Px(260), height |-> Px(50)]}

ResizedPopoverSizes ==
    {[width |-> Px(150), height |-> Px(60)],
     [width |-> Px(120), height |-> Px(80)],
     [width |-> Px(300), height |-> Px(40)]}

MaxWidths == {NoMaxWidth, Px(120), Px(200)}

InitResize ==
    /\ anchorRects = [a \in Anchors |->
                        IF a = "a1"
                        THEN Rect(Px(100), Px(100), Px(200), Px(40))
                        ELSE Rect(Px(600), Px(300), Px(100), Px(30))]
    /\ popoverSize = [width |-> Px(150), height |-> Px(60)]
    /\ innerWidth = Px(1024)
    /\ innerHeight = Px(768)
    /\ showOnHover = FALSE
    /\ continueToShowOnPopupHover = FALSE
    /\ placement \in {"top", "right"}
    /\ anchorEl = "a1"
    /\ maxWidth = NoMaxWidth
    /\ Mounted

NextResize ==
    \/ \E p \in Points : MouseMove(p)
    \/ MouseDown
    \/ DocumentMouseDown
    \/ ResizeObserverCallback
    \/ LateResizeObserverCallback
    \/ \E a \in Anchors, size \in ResizedAnchorSizes : ResizeAnchor(a, size)
    \/ \E size \in ResizedPopoverSizes : ResizePopover(size)
    \/ \E mw \in MaxWidths, size \in ResizedPopoverSizes : SetMaxWidth(mw, size)
    \/ \E a \in Anchors : SetAnchorEl(a)

SpecResize == InitResize /\ [][NextResize]_vars

----------------------------------------------------------------------------
(* Click mode *)

\* C1: in click mode, a pointer-down on the anchor of a hidden overlay leaves
\* the overlay visible once the document's listeners have seen that same
\* pointer-down.
C1_OpeningClickStays ==
    [][(/\ DocumentMouseDown
        /\ mounted
        /\ ~showOnHover
        /\ ~inflight.wasVisible
        /\ inflight.target = anchorEl) => isVisible']_vars

\* The opening click has been processed: the listener attached by it has let
\* its own event pass, and the pointer is still on the anchor.
C1_Witness ==
    /\ mounted
    /\ ~showOnHover
    /\ isVisible
    /\ inflight = NoEvent
    /\ hide = [type |-> "mousedown", isInitial |-> FALSE]
    /\ HitTest(pointer) = anchorEl

\* The component has been in click mode since it was mounted: no anchor
\* element ever got a hover handler.
AlwaysClickMode == ~showOnHover /\ \A a \in Anchors : ~onmouseenter[a]

\* C2: in click mode, every pointer-down that finds the overlay visible (so
\* every one after the opening click) hides it when its target is outside
\* the overlay and leaves it visible when its target is inside, whatever
\* props changed since the overlay was opened.  Stated for an instance that
\* was never in hover mode, so that the overlay was opened by a click.
C2_EveryLaterClick ==
    [][(/\ DocumentMouseDown
        /\ mounted
        /\ AlwaysClickMode
        /\ inflight.wasVisible) => (isVisible' <=> inflight.target = "popover")]_vars

----------------------------------------------------------------------------
(* Hover mode *)

\* The anchor's bounds with the 1px tolerance, as the hover tests take them
InAnchorBounds(pt, a) == Within(pt, getRoundedClientRect(anchorRects[a]))

\* C3: in hover mode, when the timer of a pointer-enter fires and the pointer
\* has stayed within the anchor's bounds (with the 1px tolerance) since it
\* entered, the overlay is visible afterwards; when the pointer has left the
\* bounds since and is outside them as the timer fires, a hidden overlay
\* stays hidden.
C3_HoverIntent ==
    [][\A t \in timers :
          (TimerFire(t) /\ mounted /\ showOnHover /\ t.hover) =>
              /\ (~t.left /\ InAnchorBounds(pointer, t.anchor)) => isVisible'
              /\ (t.left /\ ~InAnchorBounds(pointer, t.anchor) /\ ~isVisible)
                    => ~isVisible']_vars

\* The overlay is visible in an instance that never had a click handler: a
\* timer showed it, with the pointer resting on the anchor.
C3_Witness ==
    /\ mounted
    /\ showOnHover
    /\ isVisible
    /\ timers = {}
    /\ \A a \in Anchors : ~onmousedown[a]
    /\ InAnchorBounds(pointer, anchorEl)

\* C4: a hover-intent timer makes the overlay visible only when the pointer
\* has been inside the anchor's bounds without a break since the
\* pointer-enter that set the timer.
C4_SustainedHover ==
    [][\A t \in timers :
          (TimerFire(t) /\ ~isVisible /\ isVisible') => ~t.left]_vars

\* The overlay's rectangle extended downward by the gap
InFootprintTop(pt) ==
    /\ Left(PopoverRect) <= pt.x
    /\ pt.x <= Right(PopoverRect)
    /\ Top(PopoverRect) <= pt.y
    /\ pt.y <= Bottom(PopoverRect) + Px(ARROW_RADIUS)

\* Straight above the anchor
DirectlyAbove(pt, a) ==
    /\ Left(anchorRects[a]) <= pt.x
    /\ pt.x <= Right(anchorRects[a])
    /\ pt.y < Top(anchorRects[a])

\* Outside the footprint, beyond the 1px tolerance of the hover tests
OutsideFootprintTop(pt) ==
    LET rr == getRoundedClientRect(PopoverRect)
    IN \/ pt.x <= rr.left
       \/ pt.x >= rr.right
       \/ pt.y <= rr.top
       \/ pt.y >= rr.bottom + Px(ARROW_RADIUS)

----------------------------------------------------------------------------
(* Geometry: the position stored by reposition.  The overlay is visible only
   after reposition has stored a position for the anchor, the overlay size
   and the placement of the state. *)

Anchor == anchorRects[anchorEl]

OnTopOrBottom == placement \in {"top", "bottom"}

\* The overlay's length, the viewport's length and the stored coordinate
\* along the edge the overlay shares with the anchor
SharedLength == IF OnTopOrBottom THEN popoverSize.width ELSE popoverSize.height

ViewportLength == IF OnTopOrBottom THEN innerWidth ELSE innerHeight

SharedCoordinate == IF OnTopOrBottom THEN position.x ELSE position.y

FarEdge == SharedCoordinate + SharedLength

\* Twice the coordinate that puts the overlay's center on the anchor's center
TwiceCentered ==
    IF OnTopOrBottom
    THEN 2 * Anchor.x + Anchor.width - popoverSize.width
    ELSE 2 * Anchor.y + Anchor.height - popoverSize.height

\* The coordinate that leaves the gap between the overlay and the anchor
Beside ==
    CASE placement = "top" -> Top(Anchor) - (popoverSize.height + Px(8))
      [] placement = "bottom" -> Bottom(Anchor) + Px(8)
      [] placement = "left" -> Left(Anchor) - (popoverSize.width + Px(8))
      [] placement = "right" -> Right(Anchor) + Px(8)

\* Twice the far edge of the overlay put at the centered coordinate, not
\* below 0
TwiceUnclampedFarEdge == Max(0, TwiceCentered) + 2 * SharedLength

\* C6: the position stored by reposition has x >= 0 and y >= 0.
C6_NonNegative == isVisible => (position.x >= 0 /\ position.y >= 0)

NoClamping ==
    /\ TwiceCentered >= 0
    /\ Beside >= 0
    /\ TwiceUnclampedFarEdge < 2 * ViewportLength + Px(1)

\* C8: when nothing is clamped, the stored position centers the overlay on
\* the anchor along the shared edge and leaves the gap of 8 on the other
\* axis; an anchor at (100,100) of 200x40 with an overlay of 150x60 and
\* placement top gives x = 125, y = 32.
C8_ReferencePosition ==
    isVisible =>
        /\ NoClamping =>
              /\ 2 * SharedCoordinate = TwiceCentered
              /\ (IF OnTopOrBottom THEN position.y ELSE position.x) = Beside
        /\ (/\ Anchor = Rect(Px(100), Px(100), Px(200), Px(40))
            /\ popoverSize = [width |-> Px(150), height |-> Px(60)]
            /\ placement = "top") => position = Point(Px(125), Px(32))

\* The scenario of the claim, repositioned.
C8_Witness ==
    /\ isVisible
    /\ Anchor = Rect(Px(100), Px(100), Px(200), Px(40))
    /\ popoverSize = [width |-> Px(150), height |-> Px(60)]
    /\ placement = "top"
    /\ NoClamping
    /\ position = Point(Px(125), Px(32))

----------------------------------------------------------------------------
(* Trigger mode and teardown *)

\* C9: a hover-intent timer set by a pointer-enter while show-on-hover was
\* off never makes the overlay visible, and the anchor's pointer-down
\* handler never makes it visible while show-on-hover is on.
C9_OneTriggerMode ==
    [][/\ \A t \in timers :
             (TimerFire(t) /\ ~t.hover) => ~(~isVisible /\ isVisible')
       /\ (MouseDown /\ showOnHover) => ~(~isVisible /\ isVisible')]_vars

\* C10: once the component is unmounted, no document listener, no resize
\* observation, no handler on an anchor element and no pending hover-intent
\* timer (each holds a mousemove listener) is left.
C10_NothingLeftAfterUnmount ==
    ~mounted =>
        /\ hide = NoListener
        /\ observed = {}
        /\ \A a \in Anchors : ~onmouseenter[a] /\ ~onmousedown[a]
        /\ timers = {}

----------------------------------------------------------------------------
(* The document's hide listener *)

----------------------------------------------------------------------------
(* Two instances *)

\* "Handle open" of another CommonPopover instance whose anchorEl is a: the
\* assignment to the handler property of a replaces the function that this
\* instance put there.  onmouseenter[a] and onmousedown[a] say that the
\* property holds this instance's handler.
SiblingOpenEffect(hover, a) ==
    /\ inflight = NoEvent
    /\ \/ hover /\ onmouseenter[a]
       \/ ~hover /\ onmousedown[a]
    /\ onmouseenter' = IF hover THEN [onmouseenter EXCEPT ![a] = FALSE] ELSE onmouseenter
    /\ onmousedown' = IF hover THEN onmousedown ELSE [onmousedown EXCEPT ![a] = FALSE]
    /\ UNCHANGED <<mounted, props, geometry, isVisible, position, relativeMidPoint,
                   popoverRef, hide, timers, observed, pointer, inflight>>

\* This instance together with another one that is mounted, or whose props
\* change, at any moment
NextSiblings ==
    \/ \E p \in Points : MouseMove(p)
    \/ MouseDown
    \/ DocumentMouseDown
    \/ \E t \in timers : TimerFire(t)
    \/ \E hover \in BOOLEAN, a \in Anchors : SiblingOpenEffect(hover, a)

SpecSiblings == Init /\ [][NextSiblings]_vars

\* C12: whatever another instance does, a trigger event on the anchor reaches
\* this instance in its own mode: in click mode a pointer-down on the anchor
\* of the hidden overlay shows it, and in hover mode the pointer entering the
\* anchor starts this instance's hover-intent timer.
C12_NoTriggerLost ==
    [][/\ (/\ MouseDown
           /\ mounted
           /\ ~showOnHover
           /\ ~isVisible
           /\ HitTest(pointer) = anchorEl) => isVisible'
       /\ \A p \in Points :
             (/\ MouseMove(p)
              /\ mounted
              /\ showOnHover
              /\ OnElement(p, anchorRects[anchorEl])
              /\ ~OnElement(pointer, anchorRects[anchorEl]))
                 => HoverIntent(anchorEl, p) \in timers']_vars

----------------------------------------------------------------------------
(* Hover mode without continue-to-show *)

\* C13: hover mode, continue-to-show off, overlay visible: a sampled pointer
\* move to a point outside the anchor's bounds (with the 1px tolerance) hides
\* the overlay, and one to a point inside those bounds leaves it visible.
C13_HideOutsideAnchor ==
    [][\A p \in Points :
          (/\ MouseMove(p)
           /\ mounted
           /\ showOnHover
           /\ ~continueToShowOnPopupHover
           /\ isVisible) => (isVisible' <=> InAnchorBounds(p, anchorEl))]_vars

\* The pointer has moved off the anchor element but is still within the
\* tolerance, and the overlay is still shown.
C13_Witness ==
    /\ mounted
    /\ showOnHover
    /\ ~continueToShowOnPopupHover
    /\ isVisible
    /\ ~OnElement(pointer, anchorRects[anchorEl])
    /\ InAnchorBounds(pointer, anchorEl)

----------------------------------------------------------------------------
(* The indicator offset stored by reposition *)

\* What reposition stores when it runs in the current state
RepositionNow ==
    Reposition(Anchor, popoverSize, position, placement, innerWidth, innerHeight)

\* The overlay is shown at the stored position and a further reposition
\* stores the same position and the same indicator offset again
Settled ==
    /\ isVisible
    /\ RepositionNow = [position |-> position, relativeMidPoint |-> relativeMidPoint]

\* Twice the anchor's center along the edge it shares with the overlay
TwiceAnchorCenter ==
    IF OnTopOrBottom
    THEN 2 * Anchor.x + Anchor.width
    ELSE 2 * Anchor.y + Anchor.height

PinnedNear == SharedCoordinate = 0

PinnedFar == FarEdge = ViewportLength

\* C14: for every placement, once reposition has settled, the stored indicator
\* offset points at the anchor's center when the overlay is pinned (position
\* + offset along the shared edge = the anchor's center, with the near edge
\* at 0 and with the far edge on the viewport's far edge alike), and is half
\* the overlay's length along that edge when it is not pinned.
C14_IndicatorAtAnchorCenter ==
    Settled =>
        IF PinnedNear \/ PinnedFar
        THEN 2 * (SharedCoordinate + relativeMidPoint) = TwiceAnchorCenter
        ELSE 2 * relativeMidPoint = SharedLength

\* The indicator offset that the second measurement gives when the overlay's
\* rectangle is at the stored position
SecondPassIndicator ==
    IF OnTopOrBottom
    THEN MidPointHorizontal(Anchor, PopoverRectAt(position, popoverSize), innerWidth)
    ELSE MidPointVertical(Anchor, PopoverRectAt(position, popoverSize), innerHeight)

\* C15: every reposition call (the one made when the overlay becomes visible
\* and the ones the ResizeObserver makes) stores the indicator offset of the
\* overlay's rectangle at the position that the same call stores.
C15_IndicatorFromNewPosition ==
    [][(isVisible' /\ (ResizeObserverCallback \/ ~isVisible))
          => relativeMidPoint' = SecondPassIndicator']_vars

----------------------------------------------------------------------------
(* What makes reposition run *)

\* The anchor or the overlay's element changes size in this step
Resized ==
    \/ anchorRects'[anchorEl].width # anchorRects[anchorEl].width
    \/ anchorRects'[anchorEl].height # anchorRects[anchorEl].height
    \/ popoverSize' # popoverSize

\* What a reposition that runs after the step's changes stores: the anchor,
\* the overlay size and the placement are those after the step, the overlay
\* is still rendered at the position stored before
RepositionAfterStep ==
    Reposition(anchorRects'[anchorEl'], popoverSize', position, placement',
               innerWidth', innerHeight')

\* C16: a step after which the overlay is visible and in which it became
\* visible, maxWidth changed, or the anchor or the overlay's element changed
\* size, ends with the position and indicator offset that reposition stores
\* for the new geometry; a step after which the overlay is hidden leaves the
\* stored position and indicator offset as they were.
C16_RepositionTriggers ==
    [][/\ (isVisible' /\ (~isVisible \/ maxWidth' # maxWidth \/ Resized))
             => Stored' = RepositionAfterStep
       /\ ~isVisible' => UNCHANGED <<position, relativeMidPoint>>]_vars

\* The overlay is shown under a maxWidth, the anchor has been resized, and the
\* stored position centers the narrowed overlay on the resized anchor.
C16_Witness ==
    /\ isVisible
    /\ maxWidth = Px(120)
    /\ popoverSize = [width |-> Px(120), height |-> Px(80)]
    /\ Anchor = Rect(Px(100), Px(100), Px(260), Px(50))
    /\ placement = "top"
    /\ position = Point(Px(170), Px(12))

----------------------------------------------------------------------------
(* The gap between the overlay and the anchor *)

\* The two rectangles have a point in common
Overlaps(r1, r2) ==
    /\ Left(r1) < Right(r2)
    /\ Left(r2) < Right(r1)
    /\ Top(r1) < Bottom(r2)
    /\ Top(r2) < Bottom(r1)

\* The distance from the anchor to the overlay at the stored position, on the
\* side of the placement
GapOnPlacementSide ==
    CASE placement = "top" -> Top(Anchor) - Bottom(PopoverRect)
      [] placement = "bottom" -> Top(PopoverRect) - Bottom(Anchor)
      [] placement = "left" -> Left(Anchor) - Right(PopoverRect)
      [] placement = "right" -> Left(PopoverRect) - Right(Anchor)

----------------------------------------------------------------------------
(* The overlay in the portal *)

\* C18: the overlay starts hidden, and in every reachable state the overlay's
\* element is in the portal exactly when isVisible is true, so that every
\* transition to hidden removes it and every transition to visible mounts it.
C18_MountedIffVisible ==
    /\ ~isVisible
    /\ [](popoverRef <=> isVisible)

\* The overlay was shown (reposition has stored a position) and is hidden
\* again: its element is gone from the portal.
C18_Witness ==
    /\ mounted
    /\ position # Point(0, 0)
    /\ ~isVisible
    /\ ~popoverRef

\* C19: a reposition call made while the overlay is not mounted (the
\* ResizeObserver's callback delivered after the overlay left the portal)
\* leaves the stored position, the indicator offset and the visibility flag
\* as they were, and mounts nothing.
C19_RepositionWithoutOverlay ==
    [][(LateResizeObserverCallback /\ ~popoverRef)
          => UNCHANGED <<position, relativeMidPoint, isVisible, popoverRef>>]_vars

\* No overlay is mounted, and the position stored by an earlier reposition is
\* still there: the state in which a late callback finds the component.
C19_Witness ==
    /\ mounted
    /\ ~popoverRef
    /\ ENABLED LateResizeObserverCallback
    /\ position # Point(0, 0)
    /\ relativeMidPoint # 0

====
